---- MODULE Spec2Model ----
(***************************************************************************)
(* Model of the command encoding service (go_huffman_coding).              *)
(*                                                                         *)
(*  - package generate_codes: GetCodesFromListOfCommands and the steps it  *)
(*    is made of (frequency count, InitializeHeap, BuildHuffmanTree over   *)
(*    container/heap, generateHuffmanCodesIterative).                      *)
(*  - package main: the storage (CommandLog / CommandCode tables) and the  *)
(*    request handlers of POST /commands and GET /rcr/{command}.           *)
(*                                                                         *)
(* A Go slice of strings is a record [isNil, elems]; a *Node is an index   *)
(* into the arena `nodes` (0 is the nil pointer); a bit string is a        *)
(* sequence of "0"/"1"; a Go map is a function whose enumeration order is  *)
(* a nondeterministically chosen permutation of its keys.                  *)
(***************************************************************************)
EXTENDS Integers, Sequences, FiniteSets, TLC

\* ------------------------------------------------------------------ bounds
\* Longest input sequence handed to the generator.
MaxLen == 5

\* Number of POST /commands requests.
MaxPosts == 4
\* Number of GET /rcr/{command} requests.
MaxRequests == 2

\* The symbols (command names) inputs are drawn from.
Symbols == {"A", "B", "C", "D"}

\* ------------------------------------------------------------ Go values
NilSlice == [isNil |-> TRUE, elems |-> <<>>]
Slice(s) == [isNil |-> FALSE, elems |-> s]

SeqsUpTo(S, n) == UNION {[1..k -> S] : k \in 0..n}

\* The commands of the example usage (and of the README's POST body).
ExampleCommands == <<"LEFT", "GRAB", "LEFT", "BACK", "LEFT", "BACK", "LEFT">>

\* Every []string of at most MaxLen symbols: nil, empty non-nil, non-empty;
\* and the example's commands.
Inputs ==
    {NilSlice} \cup {Slice(s) : s \in SeqsUpTo(Symbols, MaxLen)}
               \cup {Slice(ExampleCommands)}

Range(f) == {f[x] : x \in DOMAIN f}

\* The orders in which `range` may enumerate a map with key set K.
Orders(K) == {o \in [1..Cardinality(K) -> K] : Range(o) = K}

EmptyMap == <<>>

\* m[k] = v on a Go map.
MapSet(m, k, v) == (k :> v) @@ m

\* ------------------------------------------------- generate_codes: Node
Node(value, frequency, left, right, index) ==
    [Value |-> value, Frequency |-> frequency, Left |-> left, Right |-> right,
     index |-> index]

\* A heap is the arena of nodes allocated so far and the PriorityQueue slice
\* of pointers into it. Positions i, j are 0-based as in the Go code.
Heap(nodes, pq) == [nodes |-> nodes, pq |-> pq]

PQLen(h) == Len(h.pq)

\* Less with the comparison turned round (a max-heap).
LessGreater(h, i, j) == h.nodes[h.pq[i + 1]].Frequency > h.nodes[h.pq[j + 1]].Frequency

Less(h, i, j) == h.nodes[h.pq[i + 1]].Frequency < h.nodes[h.pq[j + 1]].Frequency

Swap(h, i, j) ==
    LET pq2 == [h.pq EXCEPT ![i + 1] = h.pq[j + 1], ![j + 1] = h.pq[i + 1]]
        n1  == [h.nodes EXCEPT ![pq2[i + 1]].index = i]
        n2  == [n1 EXCEPT ![pq2[j + 1]].index = j]
    IN  Heap(n2, pq2)

\* PriorityQueue.Push: item.index = n; append.
Push(h, x) ==
    Heap([h.nodes EXCEPT ![x].index = PQLen(h)], Append(h.pq, x))

\* PriorityQueue.Pop: removes and returns the last element of the slice.
Pop(h) ==
    LET n    == PQLen(h)
        item == h.pq[n]
    IN  [h    |-> Heap([h.nodes EXCEPT ![item].index = -1], SubSeq(h.pq, 1, n - 1)),
         item |-> item]

\* ------------------------------------------------------ container/heap
RECURSIVE up(_, _)
up(h, j) ==
    LET i == IF j = 0 THEN 0 ELSE (j - 1) \div 2   \* Go: (0-1)/2 = 0
    IN  IF i = j \/ ~Less(h, j, i)
        THEN h
        ELSE up(Swap(h, i, j), i)

RECURSIVE down(_, _, _)
down(h, i, n) ==
    LET j1 == 2 * i + 1
        j2 == j1 + 1
        j  == IF j2 < n /\ Less(h, j2, j1) THEN j2 ELSE j1
    IN  IF j1 >= n
        THEN h
        ELSE IF ~Less(h, j, i)
             THEN h
             ELSE down(Swap(h, i, j), j, n)

RECURSIVE heapInitFrom(_, _, _)
heapInitFrom(h, i, n) ==
    IF i < 0 THEN h ELSE heapInitFrom(down(h, i, n), i - 1, n)

\* heap.Init left out: the queue stays in enumeration order.
heapInitSkipped(h) == h

\* heap.Init: for i := n/2 - 1; i >= 0; i-- { down(h, i, n) }
heapInit(h) == heapInitFrom(h, (PQLen(h) \div 2) - 1, PQLen(h))

\* heap.Push: h.Push(x); up(h, h.Len()-1)
heapPush(h, x) == up(Push(h, x), PQLen(h))

\* heap.Pop without down(h, 0, n): the last element is left at the top.
heapPopNoDown(h) == Pop(Swap(h, 0, PQLen(h) - 1))

\* heap.Pop: n := h.Len() - 1; h.Swap(0, n); down(h, 0, n); return h.Pop()
heapPop(h) == Pop(down(Swap(h, 0, PQLen(h) - 1), 0, PQLen(h) - 1))

\* ------------------------------------------- generate_codes: the steps
\* frequencyMap[cmd]++ over the commands.
CountFrequencies(commands) ==
    [s \in Range(commands.elems) |->
        Cardinality({i \in DOMAIN commands.elems : commands.elems[i] = s})]

\* The loop of InitializeHeap: pq[i] = &Node{Value: str, Frequency: freq,
\* index: i} for the entries in the order `range` yields them (order). The
\* i-th node allocated (1-based) is the one pq[i-1] points to.
RECURSIVE Leaves(_, _)
Leaves(frequencyMap, order) ==
    IF Len(order) = 0
    THEN Heap(<<>>, <<>>)
    ELSE LET n    == Len(order)
             rest == Leaves(frequencyMap, SubSeq(order, 1, n - 1))
         IN  Heap(Append(rest.nodes, Node(order[n], frequencyMap[order[n]], 0, 0, n - 1)),
                  Append(rest.pq, n))

\* InitializeHeap: one leaf per map entry, then heap.Init.
InitializeHeap(frequencyMap, order) == heapInit(Leaves(frequencyMap, order))

\* MergeStep with the children the other way round: Left: node2, Right: node1.
MergeStepSwapped(h) ==
    LET p1      == heapPop(h)
        p2      == heapPop(p1.h)
        node1   == p1.item
        node2   == p2.item
        newNode == Node("", p2.h.nodes[node1].Frequency + p2.h.nodes[node2].Frequency,
                        node2, node1, 0)
        id      == Len(p2.h.nodes) + 1
    IN  heapPush(Heap(Append(p2.h.nodes, newNode), p2.h.pq), id)

\* MergeStep giving the new node the weight of its left child only.
MergeStepLeftWeight(h) ==
    LET p1      == heapPop(h)
        p2      == heapPop(p1.h)
        node1   == p1.item
        node2   == p2.item
        newNode == Node("", p2.h.nodes[node1].Frequency, node1, node2, 0)
        id      == Len(p2.h.nodes) + 1
    IN  heapPush(Heap(Append(p2.h.nodes, newNode), p2.h.pq), id)

\* MergeStep making the first node removed both children: Right: node1.
MergeStepSameChild(h) ==
    LET p1      == heapPop(h)
        p2      == heapPop(p1.h)
        node1   == p1.item
        node2   == p2.item
        newNode == Node("", p2.h.nodes[node1].Frequency + p2.h.nodes[node2].Frequency,
                        node1, node1, 0)
        id      == Len(p2.h.nodes) + 1
    IN  heapPush(Heap(Append(p2.h.nodes, newNode), p2.h.pq), id)

\* One iteration of the loop of BuildHuffmanTree.
MergeStep(h) ==
    LET p1      == heapPop(h)
        p2      == heapPop(p1.h)
        node1   == p1.item
        node2   == p2.item
        newNode == Node("", p2.h.nodes[node1].Frequency + p2.h.nodes[node2].Frequency,
                        node1, node2, 0)
        id      == Len(p2.h.nodes) + 1
    IN  heapPush(Heap(Append(p2.h.nodes, newNode), p2.h.pq), id)

\* TraverseStep appending the same bit on both sides.
TraverseStepSameBit(t) ==
    LET n     == Len(t.stack)
        node  == t.stack[n]
        code  == t.codeStack[n]
        stack == SubSeq(t.stack, 1, n - 1)
        cs    == SubSeq(t.codeStack, 1, n - 1)
    IN  IF node = 0
        THEN [t EXCEPT !.stack = stack, !.codeStack = cs]
        ELSE IF t.nodes[node].Left = 0 /\ t.nodes[node].Right = 0
             THEN [t EXCEPT !.stack = stack, !.codeStack = cs,
                            !.codes = MapSet(t.codes, t.nodes[node].Value, code)]
             ELSE [t EXCEPT
                     !.stack = stack \o <<t.nodes[node].Right, t.nodes[node].Left>>,
                     !.codeStack = cs \o <<Append(code, "0"), Append(code, "0")>>]

\* TraverseStep recording a code for every node popped, leaf or not.
TraverseStepEveryNode(t) ==
    LET n     == Len(t.stack)
        node  == t.stack[n]
        code  == t.codeStack[n]
        stack == SubSeq(t.stack, 1, n - 1)
        cs    == SubSeq(t.codeStack, 1, n - 1)
        rec   == MapSet(t.codes, t.nodes[node].Value, code)
    IN  IF node = 0
        THEN [t EXCEPT !.stack = stack, !.codeStack = cs]
        ELSE IF t.nodes[node].Left = 0 /\ t.nodes[node].Right = 0
             THEN [t EXCEPT !.stack = stack, !.codeStack = cs, !.codes = rec]
             ELSE [t EXCEPT
                     !.stack = stack \o <<t.nodes[node].Right, t.nodes[node].Left>>,
                     !.codeStack = cs \o <<Append(code, "1"), Append(code, "0")>>,
                     !.codes = rec]

\* One iteration of the loop of generateHuffmanCodesIterative, on
\* t = [nodes, stack, codeStack, codes].
TraverseStep(t) ==
    LET n     == Len(t.stack)
        node  == t.stack[n]
        code  == t.codeStack[n]
        stack == SubSeq(t.stack, 1, n - 1)
        cs    == SubSeq(t.codeStack, 1, n - 1)
    IN  IF node = 0
        THEN [t EXCEPT !.stack = stack, !.codeStack = cs]
        ELSE IF t.nodes[node].Left = 0 /\ t.nodes[node].Right = 0
             THEN [t EXCEPT !.stack = stack, !.codeStack = cs,
                            !.codes = MapSet(t.codes, t.nodes[node].Value, code)]
             ELSE [t EXCEPT
                     !.stack = stack \o <<t.nodes[node].Right, t.nodes[node].Left>>,
                     !.codeStack = cs \o <<Append(code, "1"), Append(code, "0")>>]

\* ------------------------------------- generate_codes: whole functions
\* BuildHuffmanTree: merge until one node is left, return (*pq)[0]. Indexing
\* an empty queue panics (index out of range).
RECURSIVE BuildHuffmanTree(_)
BuildHuffmanTree(h) ==
    IF PQLen(h) > 1
    THEN BuildHuffmanTree(MergeStep(h))
    ELSE IF PQLen(h) = 0
         THEN [panic |-> TRUE, nodes |-> h.nodes, root |-> 0]
         ELSE [panic |-> FALSE, nodes |-> h.nodes, root |-> h.pq[1]]

RECURSIVE TraverseAll(_)
TraverseAll(t) == IF Len(t.stack) > 0 THEN TraverseAll(TraverseStep(t)) ELSE t

\* TraverseStart with the root's code starting as "0" instead of "".
TraverseStartZero(nodes, root) ==
    [nodes |-> nodes, stack |-> <<root>>, codeStack |-> << <<"0">> >>, codes |-> EmptyMap]

\* The state of generateHuffmanCodesIterative before its loop.
TraverseStart(nodes, root) ==
    [nodes |-> nodes, stack |-> <<root>>, codeStack |-> << <<>> >>, codes |-> EmptyMap]

generateHuffmanCodesIterative(nodes, root) == TraverseAll(TraverseStart(nodes, root)).codes

\* GetCodesFromListOfCommands with `order` the order in which InitializeHeap's
\* range enumerates the frequency map. A nil slice returns the nil map, which
\* has no entries.
GetCodesFromListOfCommands(commands, order) ==
    IF commands.isNil
    THEN [panic |-> FALSE, codes |-> EmptyMap]
    ELSE LET built == BuildHuffmanTree(InitializeHeap(CountFrequencies(commands), order))
         IN  IF built.panic
             THEN [panic |-> TRUE, codes |-> EmptyMap]
             ELSE [panic |-> FALSE,
                   codes |-> generateHuffmanCodesIterative(built.nodes, built.root)]

\* -------------------------------------------------- package main: values
\* const MaxNumOfLogsInDB = 100 in the source. The model runs with 2: the
\* code uses the constant only in the comparison numRows <= MaxNumOfLogsInDB,
\* and with 2 the reset of the tables happens within MaxPosts requests.
MaxNumOfLogsInDB == 2

\* encoding/json on the Commands field: a nil slice is null, any other slice
\* an array; null decodes to the nil slice, [] to an empty non-nil slice.
jsonMarshal(slice) ==
    IF slice.isNil THEN [kind |-> "null", items |-> <<>>]
                   ELSE [kind |-> "array", items |-> slice.elems]

jsonUnmarshal(json) ==
    IF json.kind = "null" THEN NilSlice ELSE Slice(json.items)

\* The request bodies of POST /commands.
Bodies ==
    {[kind |-> "null", items |-> <<>>],
     [kind |-> "array", items |-> <<>>],
     [kind |-> "array", items |-> <<"A">>],
     [kind |-> "array", items |-> <<"A", "B">>]}

\* The {command} of GET /rcr/{command}.
Commands == {"A", "B"}

\* The zero CommandLogRequest.
NoCommandLog == [ID |-> 0, Commands |-> NilSlice, Timestamp |-> 0]

\* ------------------------------------------------ SimplePostgresDB (db)
\* db = [CommandLog, CommandCode, logSerial, codeSerial]: the rows of the two
\* tables in insertion order and the next value of each table's serial id.
EmptyDB == [CommandLog |-> <<>>, CommandCode |-> <<>>, logSerial |-> 1, codeSerial |-> 1]

\* DropCommandLogEntriesIfTooMany: above MaxNumOfLogsInDB rows, both tables
\* are dropped and created again (empty, serials restarted).
DropCommandLogEntriesIfTooMany(db) ==
    IF Len(db.CommandLog) <= MaxNumOfLogsInDB THEN db ELSE EmptyDB

\* SetCommandLog: drop if too many, then INSERT ... RETURNING id.
SetCommandLog(db, commandsLog, timestamp) ==
    LET d   == DropCommandLogEntriesIfTooMany(db)
        row == [id |-> d.logSerial, commands |-> jsonMarshal(commandsLog),
                timestamp |-> timestamp]
    IN  [db  |-> [d EXCEPT !.CommandLog = Append(@, row), !.logSerial = @ + 1],
         log |-> [ID |-> row.id, Commands |-> commandsLog, Timestamp |-> timestamp]]

\* GetLatestCommandLog: ORDER BY timestamp DESC LIMIT 1; sql.ErrNoRows on an
\* empty table.
GetLatestCommandLog(db) ==
    IF Len(db.CommandLog) = 0
    THEN [err |-> TRUE, log |-> NoCommandLog]
    ELSE LET row == CHOOSE r \in Range(db.CommandLog) :
                        \A q \in Range(db.CommandLog) : q.timestamp <= r.timestamp
         IN  [err |-> FALSE,
              log |-> [ID |-> row.id, Commands |-> jsonUnmarshal(row.commands),
                       Timestamp |-> row.timestamp]]

\* GetCommandCodesForCommandLog: SELECT ... WHERE commandLogID = $1.
GetCommandCodesForCommandLog(db, commandLogID) ==
    LET Matches(row) == row.commandLogID = commandLogID
    IN  SelectSeq(db.CommandCode, Matches)

\* SetCommandCodes: one INSERT per code, in order; the first failing INSERT
\* returns (nil, err) and leaves the rows inserted before it. failAt is the
\* position of the INSERT the storage fails at (0: none); an INSERT for a
\* commandLogID with no CommandLog row fails (REFERENCES CommandLog(id)).
SetCommandCodes(db, codeSlice, commandLogID, failAt) ==
    LET known == \E i \in DOMAIN db.CommandLog : db.CommandLog[i].id = commandLogID
        stop  == IF Len(codeSlice) > 0 /\ ~known THEN 1 ELSE failAt
        n     == IF stop = 0 THEN Len(codeSlice) ELSE stop - 1
        rows  == [i \in 1..n |->
                    [ID |-> db.codeSerial + i - 1, commandLogID |-> commandLogID,
                     command |-> codeSlice[i].Command,
                     commandCode |-> codeSlice[i].Code]]
    IN  [db       |-> [db EXCEPT !.CommandCode = @ \o rows, !.codeSerial = @ + n],
         inserted |-> IF stop = 0 THEN rows ELSE <<>>,
         err      |-> stop # 0]

\* ---------------------------------------------------------------- api.go
\* ConvertCodesToCommandCodeSlice: the entries of the map in the order range
\* enumerates them (order).
ConvertCodesToCommandCodeSlice(codeMap, order) ==
    [i \in 1..Len(order) |-> [Command |-> order[i], Code |-> codeMap[order[i]]]]

\* The loop at the end of getCodeForCommandFromLastCommandLog: the code of
\* the first row for the command, ErrCommandNotFound without one.
FindCode(comandCodes, command) ==
    LET hits == {i \in DOMAIN comandCodes : comandCodes[i].command = command}
    IN  IF hits = {}
        THEN [found |-> FALSE, code |-> <<>>]
        ELSE [found |-> TRUE,
              code |-> comandCodes[CHOOSE i \in hits : \A j \in hits : i <= j].commandCode]

\* handleGetCodeForCommandFromLastCommandLog: the status written for the
\* outcome of getCodeForCommandFromLastCommandLog.
StatusOK == 200
StatusNotFound == 404
StatusInternalServerError == 500

Answer(comandCodes, command) ==
    LET f == FindCode(comandCodes, command)
    IN  IF f.found THEN [status |-> StatusOK, code |-> f.code]
                   ELSE [status |-> StatusNotFound, code |-> <<>>]


\* ------------------------------------------------------------ the state
VARIABLES
    commands,      \* the argument of GetCodesFromListOfCommands
    pc,            \* position in GetCodesFromListOfCommands
    frequencyMap,  \* its local frequencyMap
    order,         \* the order range enumerated frequencyMap in
    nodes,         \* the Nodes allocated so far
    pq,            \* the PriorityQueue
    stack,         \* generateHuffmanCodesIterative: stack
    codeStack,     \* generateHuffmanCodesIterative: codeStack
    codes,         \* generateHuffmanCodesIterative: codes
    result,        \* the map returned to the caller
    db,            \* the storage: both tables and their serials
    now,           \* the clock read by time.Now()
    lastPosted,    \* history: the CommandLog the last POST carried
    req            \* the GET /rcr/{command} requests, one goroutine each

genVars == <<commands, pc, frequencyMap, order, nodes, pq, stack, codeStack, codes, result>>

apiVars == <<db, now, lastPosted, req>>

vars == <<genVars, apiVars>>

Requests == 1..MaxRequests

\* A request not yet received.
IdleRequest ==
    [pc |-> "idle", command |-> "", commandLog |-> NoCommandLog, status |-> 0,
     code |-> <<>>]

ApiIdle ==
    /\ db = EmptyDB
    /\ now = 0
    /\ lastPosted = NilSlice
    /\ req = [r \in Requests |-> IdleRequest]

GenIdle ==
    /\ commands = NilSlice
    /\ pc = "idle"
    /\ frequencyMap = EmptyMap
    /\ order = <<>>
    /\ nodes = <<>>
    /\ pq = <<>>
    /\ stack = <<>>
    /\ codeStack = <<>>
    /\ codes = EmptyMap
    /\ result = EmptyMap

\* --------------------------------------------------- generator: actions
GenInit ==
    /\ commands \in Inputs
    /\ pc = "call"
    /\ frequencyMap = EmptyMap
    /\ order = <<>>
    /\ nodes = <<>>
    /\ pq = <<>>
    /\ stack = <<>>
    /\ codeStack = <<>>
    /\ codes = EmptyMap
    /\ result = EmptyMap

\* if commands == nil { return nil }
ReturnNil ==
    /\ pc = "call"
    /\ commands.isNil
    /\ pc' = "returned"
    /\ result' = EmptyMap
    /\ UNCHANGED <<commands, frequencyMap, order, nodes, pq, stack, codeStack, codes>>
    /\ UNCHANGED apiVars

\* for _, cmd := range commands { frequencyMap[cmd]++ }
Count ==
    /\ pc = "call"
    /\ ~commands.isNil
    /\ frequencyMap' = CountFrequencies(commands)
    /\ pc' = "counted"
    /\ UNCHANGED <<commands, order, nodes, pq, stack, codeStack, codes, result>>
    /\ UNCHANGED apiVars

\* pq := InitializeHeap(frequencyMap)
InitHeap ==
    /\ pc = "counted"
    /\ \E o \in Orders(DOMAIN frequencyMap) :
          LET h == InitializeHeap(frequencyMap, o)
          IN  /\ order' = o
              /\ nodes' = h.nodes
              /\ pq' = h.pq
    /\ pc' = "build"
    /\ UNCHANGED <<commands, frequencyMap, stack, codeStack, codes, result>>
    /\ UNCHANGED apiVars

\* BuildHuffmanTree: one iteration of for pq.Len() > 1 { ... }
Merge ==
    /\ pc = "build"
    /\ Len(pq) > 1
    /\ LET h == MergeStep(Heap(nodes, pq))
       IN  /\ nodes' = h.nodes
           /\ pq' = h.pq
    /\ UNCHANGED <<commands, pc, frequencyMap, order, stack, codeStack, codes, result>>
    /\ UNCHANGED apiVars

\* BuildHuffmanTree: root := (*pq)[0] on an empty queue
BuildPanic ==
    /\ pc = "build"
    /\ Len(pq) = 0
    /\ pc' = "panic"
    /\ UNCHANGED <<commands, frequencyMap, order, nodes, pq, stack, codeStack, codes, result>>
    /\ UNCHANGED apiVars

\* BuildHuffmanTree returns (*pq)[0]; generateHuffmanCodesIterative starts.
BuildReturn ==
    /\ pc = "build"
    /\ Len(pq) = 1
    /\ LET t == TraverseStart(nodes, pq[1])
       IN  /\ stack' = t.stack
           /\ codeStack' = t.codeStack
           /\ codes' = t.codes
    /\ pc' = "traverse"
    /\ UNCHANGED <<commands, frequencyMap, order, nodes, pq, result>>
    /\ UNCHANGED apiVars

\* generateHuffmanCodesIterative: one iteration of for len(stack) > 0 { ... }
Traverse ==
    /\ pc = "traverse"
    /\ Len(stack) > 0
    /\ LET t == TraverseStep([nodes |-> nodes, stack |-> stack,
                              codeStack |-> codeStack, codes |-> codes])
       IN  /\ stack' = t.stack
           /\ codeStack' = t.codeStack
           /\ codes' = t.codes
    /\ UNCHANGED <<commands, pc, frequencyMap, order, nodes, pq, result>>
    /\ UNCHANGED apiVars

\* return codes
Return ==
    /\ pc = "traverse"
    /\ Len(stack) = 0
    /\ result' = codes
    /\ pc' = "returned"
    /\ UNCHANGED <<commands, frequencyMap, order, nodes, pq, stack, codeStack, codes>>
    /\ UNCHANGED apiVars

GenNext ==
    \/ ReturnNil
    \/ Count
    \/ InitHeap
    \/ Merge
    \/ BuildPanic
    \/ BuildReturn
    \/ Traverse
    \/ Return

Init == GenInit /\ ApiIdle

Next == GenNext

Spec == Init /\ [][Next]_vars

\* ---------------------------------------------------- server: actions
\* The response of request r, which ends it.
Respond(r, status, code) ==
    req' = [req EXCEPT ![r].pc = "done", ![r].status = status, ![r].code = code]

\* The requests are numbered in the order the server receives them.
Received(r) == \A q \in Requests : q < r => req[q].pc # "idle"

\* POST /commands: handlePostCommands decodes the body and calls SetCommandLog.
PostCommands ==
    /\ now < MaxPosts
    /\ \E body \in Bodies :
          LET commandsLog == jsonUnmarshal(body)
              set         == SetCommandLog(db, commandsLog, now + 1)
          IN  /\ db' = set.db
              /\ lastPosted' = commandsLog
    /\ now' = now + 1
    /\ UNCHANGED req
    /\ UNCHANGED genVars

\* GET /rcr/{command} is received; db.GetLatestCommandLog() returns an error
\* (a storage failure, or sql.ErrNoRows).
LatestFails(r) ==
    /\ req[r].pc = "idle"
    /\ Received(r)
    /\ \E command \in Commands :
          req' = [req EXCEPT ![r].pc = "done", ![r].command = command,
                             ![r].status = StatusInternalServerError]
    /\ UNCHANGED <<db, now, lastPosted>>
    /\ UNCHANGED genVars

\* GET /rcr/{command} is received; db.GetLatestCommandLog() returns the log.
Latest(r) ==
    /\ req[r].pc = "idle"
    /\ Received(r)
    /\ ~GetLatestCommandLog(db).err
    /\ \E command \in Commands :
          req' = [req EXCEPT ![r].pc = "latest", ![r].command = command,
                             ![r].commandLog = GetLatestCommandLog(db).log]
    /\ UNCHANGED <<db, now, lastPosted>>
    /\ UNCHANGED genVars

\* db.GetCommandCodesForCommandLog(commandLog.ID) returns an error.
CodesFail(r) ==
    /\ req[r].pc = "latest"
    /\ Respond(r, StatusInternalServerError, <<>>)
    /\ UNCHANGED <<db, now, lastPosted>>
    /\ UNCHANGED genVars

\* db.GetCommandCodesForCommandLog(commandLog.ID) returns stored rows: the
\* answer is looked up in them.
CodesStored(r) ==
    /\ req[r].pc = "latest"
    /\ LET comandCodes == GetCommandCodesForCommandLog(db, req[r].commandLog.ID)
           a           == Answer(comandCodes, req[r].command)
       IN  /\ Len(comandCodes) # 0
           /\ Respond(r, a.status, a.code)
    /\ UNCHANGED <<db, now, lastPosted>>
    /\ UNCHANGED genVars

\* db.GetCommandCodesForCommandLog(commandLog.ID) returns no rows.
CodesMissing(r) ==
    /\ req[r].pc = "latest"
    /\ Len(GetCommandCodesForCommandLog(db, req[r].commandLog.ID)) = 0
    /\ req' = [req EXCEPT ![r].pc = "generate"]
    /\ UNCHANGED <<db, now, lastPosted>>
    /\ UNCHANGED genVars

\* len(comandCodes) == 0: the codes are generated, which panics.
GeneratePanics(r) ==
    /\ req[r].pc = "generate"
    /\ \E o \in Orders(Range(req[r].commandLog.Commands.elems)) :
          GetCodesFromListOfCommands(req[r].commandLog.Commands, o).panic
    /\ req' = [req EXCEPT ![r].pc = "panic"]
    /\ UNCHANGED <<db, now, lastPosted>>
    /\ UNCHANGED genVars

\* len(comandCodes) == 0: the codes are generated and stored with
\* db.SetCommandCodes; the answer is looked up in the rows it returns.
GenerateAndStore(r) ==
    /\ req[r].pc = "generate"
    /\ \E o \in Orders(Range(req[r].commandLog.Commands.elems)) :
          LET got == GetCodesFromListOfCommands(req[r].commandLog.Commands, o)
          IN  /\ ~got.panic
              /\ \E o2 \in Orders(DOMAIN got.codes) :
                 \E failAt \in 0..Cardinality(DOMAIN got.codes) :
                    LET codeSlice == ConvertCodesToCommandCodeSlice(got.codes, o2)
                        set == SetCommandCodes(db, codeSlice, req[r].commandLog.ID, failAt)
                        a   == Answer(set.inserted, req[r].command)
                    IN  /\ db' = set.db
                        /\ IF set.err
                           THEN Respond(r, StatusInternalServerError, <<>>)
                           ELSE Respond(r, a.status, a.code)
    /\ UNCHANGED <<now, lastPosted>>
    /\ UNCHANGED genVars

ApiNext ==
    \/ PostCommands
    \/ \E r \in Requests :
          \/ LatestFails(r)
          \/ Latest(r)
          \/ CodesFail(r)
          \/ CodesStored(r)
          \/ CodesMissing(r)
          \/ GeneratePanics(r)
          \/ GenerateAndStore(r)

ApiInit == GenIdle /\ ApiIdle

SpecApi == ApiInit /\ [][ApiNext]_vars

\* =============================================================== claims
\* The distinct symbols and the frequencies of the input of the call.
InputSymbols == Range(commands.elems)
Frequency(a) == Cardinality({i \in DOMAIN commands.elems : commands.elems[i] = a})

IsPrefix(u, v) == Len(u) <= Len(v) /\ SubSeq(v, 1, Len(u)) = u

RECURSIVE SumOver(_, _)
SumOver(S, f) ==
    IF S = {} THEN 0
    ELSE LET x == CHOOSE y \in S : TRUE IN f[x] + SumOver(S \ {x}, f)

\* Sum over the symbols of frequency x code length.
Cost(freq, lengths) == SumOver(DOMAIN freq, [a \in DOMAIN freq |-> freq[a] * lengths[a]])

Min(S) == CHOOSE x \in S : \A y \in S : x <= y

\* The least cost of a binary code tree with the symbols S at its leaves, by
\* trying every split of S into the leaves under the left and the right
\* child of the root: each symbol of S is one level deeper than in its subtree.
RECURSIVE MinTreeCost(_, _)
MinTreeCost(S, freq) ==
    IF Cardinality(S) <= 1
    THEN 0
    ELSE LET x == CHOOSE y \in S : TRUE
         IN  SumOver(S, freq)
             + Min({MinTreeCost(T, freq) + MinTreeCost(S \ T, freq) :
                      T \in {U \in SUBSET S : x \in U /\ U # S}})

\* C1: with at least 2 distinct symbols in the input, the returned map is
\* prefix-free: for distinct symbols a, b, code(a) is not a prefix of code(b).
C1_PrefixFree ==
    (pc = "returned" /\ Cardinality(InputSymbols) >= 2) =>
        \A a, b \in InputSymbols :
            a # b => /\ a \in DOMAIN result
                     /\ b \in DOMAIN result
                     /\ ~IsPrefix(result[a], result[b])

\* A call returned codes of lengths 1, 2, 3, 3 for four symbols.
C1_Witness ==
    /\ pc = "returned"
    /\ Cardinality(InputSymbols) = 4
    /\ \E a, b \in InputSymbols : Len(result[a]) = 1 /\ Len(result[b]) = 3

\* C2: the cost (sum of frequency x code length) of the returned map is the
\* least cost of any binary prefix code for the input's frequencies.
C2_Optimal ==
    pc = "returned" =>
        /\ DOMAIN result = InputSymbols
        /\ LET freq    == [a \in InputSymbols |-> Frequency(a)]
               lengths == [a \in InputSymbols |-> Len(result[a])]
           IN  Cost(freq, lengths) = MinTreeCost(InputSymbols, freq)

\* A call returned for an input with equal-weight ties and unequal weights.
C2_Witness ==
    /\ pc = "returned"
    /\ Cardinality(InputSymbols) = 4
    /\ \E a, b, c \in InputSymbols :
          a # b /\ Frequency(a) = Frequency(b) /\ Frequency(c) > Frequency(a)

\* C3: a call's result is the one every invocation on this input returns,
\* whichever order the frequency map is enumerated in.
C3_Deterministic ==
    pc = "returned" =>
        \A o \in Orders(InputSymbols) :
            GetCodesFromListOfCommands(commands, o).codes = result

\* C4: a call with an empty sequence (nil or not) does not panic and returns
\* an empty code table.
C4_EmptyInputReturnsEmpty ==
    Len(commands.elems) = 0 =>
        /\ pc # "panic"
        /\ pc = "returned" => DOMAIN result = {}

\* C5: for a non-empty input the keys of the returned map are exactly the
\* distinct symbols of the input.
C5_KeysAreSymbols ==
    (pc = "returned" /\ Len(commands.elems) > 0) => DOMAIN result = InputSymbols

\* A call returned for an input in which a symbol is repeated and the tree has
\* internal nodes.
C5_Witness ==
    /\ pc = "returned"
    /\ Cardinality(InputSymbols) = 3
    /\ Len(commands.elems) > 3
    /\ Len(nodes) = 5

\* C6: a symbol more frequent than another never has the longer code.
C6_MoreFrequentNotLonger ==
    pc = "returned" =>
        \A a, b \in InputSymbols :
            Frequency(a) > Frequency(b) =>
                /\ a \in DOMAIN result
                /\ b \in DOMAIN result
                /\ Len(result[a]) <= Len(result[b])

\* A call returned a strictly shorter code for a strictly more frequent symbol.
C6_Witness ==
    /\ pc = "returned"
    /\ \E a, b \in InputSymbols :
          Frequency(a) > Frequency(b) /\ Len(result[a]) < Len(result[b])

\* C7: with exactly one distinct symbol the returned map has the single entry
\* symbol -> empty bit string, and no merge was performed.
C7_SingleSymbolEmptyCode ==
    (pc = "returned" /\ Cardinality(InputSymbols) = 1) =>
        /\ result = [a \in InputSymbols |-> <<>>]
        /\ Len(nodes) = 1
        /\ nodes[1].Left = 0 /\ nodes[1].Right = 0

\* A call returned for one symbol repeated.
C7_Witness ==
    /\ pc = "returned"
    /\ Cardinality(InputSymbols) = 1
    /\ Len(commands.elems) > 1

\* The lookups that have ended, with a response or in a panic.
Ended(r) == req[r].pc \in {"done", "panic"}

\* The command of request r occurs in the sequence of the log it read.
Occurs(r) == req[r].command \in Range(req[r].commandLog.Commands.elems)

\* C8: codes are generated and stored at most once per stored command log:
\* the CommandCode table holds at most one row per (log id, symbol).
C8_OneRowPerLogAndSymbol ==
    \A i, j \in DOMAIN db.CommandCode :
        (/\ db.CommandCode[i].commandLogID = db.CommandCode[j].commandLogID
         /\ db.CommandCode[i].command = db.CommandCode[j].command) => i = j

\* C9: a lookup that read the log of the last POST and was answered with a
\* code got the code of its command in a code table generated from the last
\* posted sequence.
C9_CodeOfLastPostedLog ==
    \A r \in Requests :
        (/\ req[r].pc = "done"
         /\ req[r].status = StatusOK
         /\ req[r].commandLog.Timestamp = now) =>
            /\ req[r].commandLog.Commands = lastPosted
            /\ \E o \in Orders(Range(lastPosted.elems)) :
                  LET got == GetCodesFromListOfCommands(lastPosted, o)
                  IN  /\ ~got.panic
                      /\ req[r].command \in DOMAIN got.codes
                      /\ got.codes[req[r].command] = req[r].code

\* C10: every lookup ends in a response; not found (404) is the response
\* exactly when the command does not occur in the sequence of the log read, a
\* command that occurs gets its code (200), and the failures to read the
\* storage or the log are answered differently (500).
C10_NotFoundIffAbsent ==
    \A r \in Requests :
        Ended(r) =>
            /\ req[r].pc = "done"
            /\ req[r].status \in {StatusOK, StatusNotFound, StatusInternalServerError}
            /\ req[r].status = StatusNotFound =>
                  (req[r].commandLog # NoCommandLog /\ ~Occurs(r))
            /\ req[r].status = StatusOK => Occurs(r)

\* C11: after any sequence of posts the CommandLog table holds at most
\* MaxNumOfLogsInDB rows, and they are the most recently posted logs: the
\* k rows are the logs of the last k posts (the p-th post has timestamp p).
C11_OnlyLastLogsStored ==
    /\ Len(db.CommandLog) <= MaxNumOfLogsInDB
    /\ {db.CommandLog[i].timestamp : i \in DOMAIN db.CommandLog}
          = (now - Len(db.CommandLog) + 1)..now

\* C12: for the example's commands (LEFT 4 times, BACK twice, GRAB once) the
\* call returns exactly LEFT = "1", GRAB = "00", BACK = "01", in whichever
\* order the frequency map is enumerated.
C12_ExampleCodes ==
    (pc = "returned" /\ commands.elems = ExampleCommands) =>
        result = [a \in {"LEFT", "GRAB", "BACK"} |->
                    IF a = "LEFT" THEN <<"1">>
                    ELSE IF a = "GRAB" THEN <<"0", "0">>
                    ELSE <<"0", "1">>]

\* The call on the example's commands returned after the map was enumerated
\* with the rarest symbol last, so that heap.Init had to reorder the queue.
C12_Witness ==
    /\ pc = "returned"
    /\ commands.elems = ExampleCommands
    /\ order = <<"LEFT", "BACK", "GRAB">>
    /\ Len(nodes) = 5

\* The bit strings of length 2.
TwoBitStrings == {<<x, y>> : x, y \in {"0", "1"}}

\* C13: for an input of four distinct symbols occurring once each, the call
\* returns four codes, all of length 2, that are the four two-bit strings
\* 00, 01, 10, 11 used once each, however the equal-weight ties are resolved.
C13_FourEqualSymbols ==
    (/\ pc = "returned"
     /\ Len(commands.elems) = 4
     /\ Cardinality(InputSymbols) = 4) =>
        /\ DOMAIN result = InputSymbols
        /\ \A a \in InputSymbols : Len(result[a]) = 2
        /\ Range(result) = TwoBitStrings
        /\ \A a, b \in InputSymbols : result[a] = result[b] => a = b

\* A call on four symbols occurring once each returned, the map having been
\* enumerated in another order than the symbols occur in the input.
C13_Witness ==
    /\ pc = "returned"
    /\ Len(commands.elems) = 4
    /\ Cardinality(InputSymbols) = 4
    /\ order # commands.elems
    /\ Cardinality(Range(result)) = 4

\* The nodes of the tree under node n (0 is the nil pointer).
RECURSIVE Subtree(_)
Subtree(n) ==
    IF n = 0 THEN {}
    ELSE {n} \cup Subtree(nodes[n].Left) \cup Subtree(nodes[n].Right)

IsLeaf(n) == nodes[n].Left = 0 /\ nodes[n].Right = 0

\* The nodes of T that have n as a child.
Parents(n, T) == {p \in T : nodes[p].Left = n \/ nodes[p].Right = n}

\* C14: for an input of N >= 2 distinct symbols the tree BuildHuffmanTree
\* returns has exactly N leaves, one per symbol with its count as weight, and
\* exactly N-1 internal nodes; every internal node has two children and the
\* sum of their weights as weight, the root's weight is the length of the
\* input, and no node is the child of two parents (the root of none).
C14_TreeShape ==
    (pc \in {"traverse", "returned"} /\ Cardinality(InputSymbols) >= 2) =>
        LET N      == Cardinality(InputSymbols)
            root   == pq[1]
            T      == Subtree(root)
            leaves == {n \in T : IsLeaf(n)}
            inner  == T \ leaves
        IN  /\ Cardinality(leaves) = N
            /\ \A a \in InputSymbols :
                  \E n \in leaves : /\ nodes[n].Value = a
                                    /\ nodes[n].Frequency = Frequency(a)
            /\ Cardinality(inner) = N - 1
            /\ \A n \in inner :
                  /\ nodes[n].Left # 0
                  /\ nodes[n].Right # 0
                  /\ nodes[n].Left # nodes[n].Right
                  /\ nodes[n].Frequency = nodes[nodes[n].Left].Frequency
                                          + nodes[nodes[n].Right].Frequency
            /\ nodes[root].Frequency = Len(commands.elems)
            /\ \A n \in T :
                  Cardinality(Parents(n, T)) = IF n = root THEN 0 ELSE 1

\* BuildHuffmanTree returned a tree of four leaves in which an internal node
\* has a leaf and an internal node as children.
C14_Witness ==
    /\ pc = "traverse"
    /\ Cardinality(InputSymbols) = 4
    /\ \E n \in Subtree(pq[1]) :
          /\ ~IsLeaf(n)
          /\ IsLeaf(nodes[n].Left)
          /\ ~IsLeaf(nodes[n].Right)

\* N: the number of distinct symbols of the input, the entries of the
\* frequency table.
NumSymbols == Cardinality(InputSymbols)

\* The weight of the node the queue holds at p.
Weight(p) == nodes[p].Frequency

\* The step is an iteration of the merge loop of BuildHuffmanTree.
IsMerge == pc = "build" /\ Len(pq) > 1 /\ nodes' # nodes

\* The step is the return of BuildHuffmanTree.
IsBuildReturn == pc = "build" /\ pc' = "traverse"

\* An iteration removes the two lowest-weight nodes of the queue, makes the
\* first removed the left and the second the right child of one new node,
\* and puts that node in the queue: the queue is one node shorter.
MergesTwoLowest ==
    LET new   == Len(nodes')
        left  == nodes'[new].Left
        right == nodes'[new].Right
    IN  /\ new = Len(nodes) + 1
        /\ left \in Range(pq)
        /\ right \in Range(pq)
        /\ left # right
        /\ \A q \in Range(pq) : Weight(left) <= Weight(q)
        /\ \A q \in Range(pq) \ {left} : Weight(right) <= Weight(q)
        /\ Weight(left) <= Weight(right)
        /\ Range(pq') = (Range(pq) \ {left, right}) \cup {new}
        /\ Len(pq') = Len(pq) - 1

\* C15: for an input of N >= 1 distinct symbols the merge loop ends after
\* exactly N-1 iterations with one node in the queue, which is returned as
\* the root; each iteration removes the two lowest-weight nodes then in the
\* queue, the first removed becoming the left child and the second the right
\* child (left weight <= right weight), and shortens the queue by one. The
\* loop ends because before each step of BuildHuffmanTree, after k
\* iterations, the queue holds N - k >= 1 nodes.
C15_MergeLoop ==
    [][/\ IsMerge => MergesTwoLowest
       /\ (IsBuildReturn /\ NumSymbols >= 1) =>
             /\ Len(pq) = 1
             /\ Len(nodes) - NumSymbols = NumSymbols - 1
             /\ stack' = <<pq[1]>>
       /\ (pc = "build" /\ NumSymbols >= 1) =>
             /\ Len(pq) = NumSymbols - (Len(nodes) - NumSymbols)
             /\ Len(pq) >= 1
             /\ pc' \in {"build", "traverse"}]_vars

\* The loop ended after three iterations on four symbols, the last of which
\* merged two nodes of different weights.
C15_Witness ==
    /\ pc = "traverse"
    /\ Cardinality(InputSymbols) = 4
    /\ Len(nodes) = 7
    /\ Len(pq) = 1
    /\ nodes[nodes[7].Left].Frequency < nodes[nodes[7].Right].Frequency

====
